---------------------------- MODULE Spec2Model ----------------------------
(***************************************************************************)
(* A model of modules/util.py: make_coordinate_grid and KP2Gaussian.       *)
(*                                                                         *)
(* Tensors are records [shape, data] with the data in row-major order, as  *)
(* torch lays out a contiguous tensor.  Every tensor operation the two     *)
(* functions use (arange, view, repeat, unsqueeze_, cat, the broadcasting  *)
(* subtraction, **, sum, /, exp) is an operator on such records, and the   *)
(* two functions are the compositions the source writes.                   *)
(*                                                                         *)
(* Numbers.  An element is a pair <<n, d>>: the rational n/d in lowest     *)
(* terms when d > 0, and an IEEE special value when d = 0 (<<0,0>> is NaN, *)
(* <<1,0>> is +inf, <<-1,0>> is -inf).  +, -, * and / are exact on the     *)
(* rationals and follow IEEE 754 on division by zero and on the specials;  *)
(* the rounding of these four operations (a relative error of 2^-24) is    *)
(* not modelled.  exp is modelled with the two places where float32        *)
(* rounding changes the result qualitatively: it returns exactly 0 below   *)
(* the underflow threshold and exactly 1 for an argument within half an    *)
(* ulp of 0.  Between the two its value is kept symbolically, as the       *)
(* exponent.                                                               *)
(***************************************************************************)
EXTENDS Integers, Sequences, FiniteSets, TLC

(***************************************************************************)
(* Bounds of the model.                                                    *)
(***************************************************************************)
MaxS == 4          \* spatial_size ranges over 0..MaxS
MaxN == 2          \* number of keypoints N ranges over 1..MaxN

(***************************************************************************)
(* Numbers.                                                                *)
(***************************************************************************)
Abs(a) == IF a < 0 THEN -a ELSE a

Sgn(a) == IF a < 0 THEN -1 ELSE IF a > 0 THEN 1 ELSE 0

RECURSIVE Gcd(_, _)
Gcd(a, b) == IF b = 0 THEN a ELSE Gcd(b, a % b)

NaN == <<0, 0>>
PosInf == <<1, 0>>
NegInf == <<-1, 0>>
Zero == <<0, 1>>
One == <<1, 1>>

\* The number n/d, d # 0, in lowest terms with a positive denominator.
Rat(n, d) ==
    LET g == Gcd(Abs(n), Abs(d))
        s == IF d < 0 THEN -1 ELSE 1
    IN  <<(s * n) \div g, (s * d) \div g>>

Int2Num(i) == <<i, 1>>

IsNaN(a) == a = NaN
IsInf(a) == a[2] = 0 /\ a[1] # 0

\* a + b on floats: exact on finite values; inf + (-inf) is NaN.
NumAdd(a, b) ==
    IF IsNaN(a) \/ IsNaN(b) THEN NaN
    ELSE IF IsInf(a) /\ IsInf(b) THEN (IF a = b THEN a ELSE NaN)
    ELSE IF IsInf(a) THEN a
    ELSE IF IsInf(b) THEN b
    ELSE Rat(a[1] * b[2] + b[1] * a[2], a[2] * b[2])

NumNeg(a) == <<-a[1], a[2]>>

NumSub(a, b) == NumAdd(a, NumNeg(b))

\* a * b on floats: exact on finite values; inf * 0 is NaN.
NumMul(a, b) ==
    IF IsNaN(a) \/ IsNaN(b) THEN NaN
    ELSE IF IsInf(a) \/ IsInf(b)
         THEN (IF a[1] = 0 \/ b[1] = 0 THEN NaN ELSE <<Sgn(a[1]) * Sgn(b[1]), 0>>)
    ELSE Rat(a[1] * b[1], a[2] * b[2])

\* a / b on floats: x / 0 is +-inf for x # 0 and NaN for x = 0 (no exception
\* is raised by a tensor division); inf / inf is NaN.
NumDiv(a, b) ==
    IF IsNaN(a) \/ IsNaN(b) THEN NaN
    ELSE IF IsInf(a) THEN (IF IsInf(b) THEN NaN
                           ELSE <<Sgn(a[1]) * (IF b[1] < 0 THEN -1 ELSE 1), 0>>)
    ELSE IF IsInf(b) THEN Zero
    ELSE IF b[1] = 0 THEN (IF a[1] = 0 THEN NaN ELSE <<Sgn(a[1]), 0>>)
    ELSE Rat(a[1] * b[2], a[2] * b[1])

\* a < b for finite a and b.
NumLt(a, b) == a[1] * b[2] < b[1] * a[2]

(***************************************************************************)
(* Tensors: [shape |-> <<d1, ..., dk>>, data |-> row-major elements].      *)
(***************************************************************************)
RECURSIVE Prod(_)
Prod(s) == IF s = <<>> THEN 1 ELSE Head(s) * Prod(Tail(s))

Numel(t) == Prod(t.shape)

Rank(t) == Len(t.shape)

\* The product of the sizes after axis k: the stride of axis k.
Stride(shape, k) == Prod(SubSeq(shape, k + 1, Len(shape)))

\* The multi-index (0-based per axis) of the flat position p (1-based).
Unravel(p, shape) ==
    [k \in 1..Len(shape) |-> ((p - 1) \div Stride(shape, k)) % shape[k]]

\* The flat position (1-based) of the multi-index idx.
RECURSIVE RavelFrom(_, _, _)
RavelFrom(idx, shape, k) ==
    IF k > Len(shape) THEN 0
    ELSE idx[k] * Stride(shape, k) + RavelFrom(idx, shape, k + 1)

Ravel(idx, shape) == 1 + RavelFrom(idx, shape, 1)

At(t, idx) == t.data[Ravel(idx, t.shape)]

Ones(n) == [k \in 1..n |-> 1]

\* torch.arange(n).type(type): the floats 0, 1, ..., n-1.
Arange(n) == [shape |-> <<n>>, data |-> [p \in 1..n |-> Int2Num(p - 1)]]

\* Whether t.view(*shape) is accepted: the element counts agree.
ViewOk(t, shape) == Prod(shape) = Numel(t)

\* t.view(*shape) of a contiguous tensor: the same elements in the same order.
View(t, shape) == [shape |-> shape, data |-> t.data]

\* t.view(-1, 1): the -1 is inferred from the element count.
ViewColumn(t) == View(t, <<Numel(t), 1>>)

\* t.repeat(*reps), Len(reps) >= Rank(t): the shape is padded with leading
\* ones to the length of reps and the tensor is tiled reps[k] times along axis k.
RepeatShape(shape, reps) ==
    LET padded == Ones(Len(reps) - Len(shape)) \o shape
    IN  [k \in 1..Len(reps) |-> padded[k] * reps[k]]

Repeat(t, reps) ==
    LET padded == Ones(Len(reps) - Rank(t)) \o t.shape
        shape == RepeatShape(t.shape, reps)
        src(idx) == [k \in 1..Len(reps) |-> idx[k] % padded[k]]
    IN  [shape |-> shape,
         data |-> [p \in 1..Prod(shape) |->
                      t.data[Ravel(src(Unravel(p, shape)), padded)]]]

\* t.unsqueeze_(dim): a size-one axis is inserted at position dim (0-based).
UnsqueezeShape(shape, dim) ==
    SubSeq(shape, 1, dim) \o <<1>> \o SubSeq(shape, dim + 1, Len(shape))

Unsqueeze(t, dim) == View(t, UnsqueezeShape(t.shape, dim))

\* torch.cat([a, b], dim) (dim 0-based): b follows a along axis dim.
CatShape(sa, sb, dim) ==
    [k \in 1..Len(sa) |-> IF k = dim + 1 THEN sa[k] + sb[k] ELSE sa[k]]

Cat(a, b, dim) ==
    LET shape == CatShape(a.shape, b.shape, dim)
        pick(idx) ==
            IF idx[dim + 1] < a.shape[dim + 1] THEN At(a, idx)
            ELSE At(b, [idx EXCEPT ![dim + 1] = @ - a.shape[dim + 1]])
    IN  [shape |-> shape,
         data |-> [p \in 1..Prod(shape) |-> pick(Unravel(p, shape))]]

\* The shape of a broadcast of two shapes of equal length whose sizes agree
\* or are 1 on every axis: per axis, the size that is not 1.
BroadcastShape(sa, sb) ==
    [k \in 1..Len(sa) |-> IF sa[k] = 1 THEN sb[k] ELSE sa[k]]

\* The subtraction that reads b at its first entry along every axis but the
\* last, whatever the index of the result.
BroadcastSubFirst(a, b) ==
    LET ia(idx) == [k \in 1..Rank(a) |-> IF a.shape[k] = 1 THEN 0 ELSE idx[k]]
        ib(idx) == [k \in 1..Rank(b) |-> IF k < Rank(b) THEN 0 ELSE idx[k]]
        shape == BroadcastShape(a.shape, b.shape)
        diff(idx) == NumSub(At(a, ia(idx)), At(b, ib(idx)))
    IN  [shape |-> shape,
         data |-> [p \in 1..Prod(shape) |-> diff(Unravel(p, shape))]]

\* a - b with broadcasting, for tensors of equal rank: a size-one axis is
\* read at index 0 whatever the index of the result.
BroadcastSub(a, b) ==
    LET ia(idx) == [k \in 1..Rank(a) |-> IF a.shape[k] = 1 THEN 0 ELSE idx[k]]
        ib(idx) == [k \in 1..Rank(b) |-> IF b.shape[k] = 1 THEN 0 ELSE idx[k]]
        shape == BroadcastShape(a.shape, b.shape)
        diff(idx) == NumSub(At(a, ia(idx)), At(b, ib(idx)))
    IN  [shape |-> shape,
         data |-> [p \in 1..Prod(shape) |-> diff(Unravel(p, shape))]]

RECURSIVE SumRange(_, _, _)
SumRange(data, lo, hi) ==
    IF lo > hi THEN Zero ELSE NumAdd(data[lo], SumRange(data, lo + 1, hi))

\* torch.sum(t, dim=-1): the last axis is summed away.
SumKeepDimShape(shape) == SubSeq(shape, 1, Len(shape) - 1) \o <<1>>

SumLastShape(shape) == SubSeq(shape, 1, Len(shape) - 1)

SumLast(t) ==
    LET w == t.shape[Rank(t)]
        shape == SumLastShape(t.shape)
    IN  [shape |-> shape,
         data |-> [p \in 1..Prod(shape) |-> SumRange(t.data, (p - 1) * w + 1, p * w)]]

(***************************************************************************)
(* make_coordinate_grid(spatial_size, type), for a float type.             *)
(***************************************************************************)
\* The normalization that divides by spatial_size.
NormalizeByS(x, spatial_size) ==
    [shape |-> x.shape,
     data |-> [p \in 1..Len(x.data) |->
                  NumSub(NumMul(Int2Num(2),
                                NumDiv(x.data[p], Int2Num(spatial_size))), One)]]

\* x = (2 * (x / (spatial_size - 1)) - 1), elementwise.
Normalize(x, spatial_size) ==
    [shape |-> x.shape,
     data |-> [p \in 1..Len(x.data) |->
                  NumSub(NumMul(Int2Num(2),
                                NumDiv(x.data[p], Int2Num(spatial_size - 1))), One)]]

\* The grid with the two channels in the other order.
make_coordinate_grid_yx(spatial_size) ==
    LET x == Normalize(Arange(spatial_size), spatial_size)
        y == Normalize(Arange(spatial_size), spatial_size)
        yy == Repeat(ViewColumn(y), <<1, spatial_size>>)
        xx == Repeat(x, <<spatial_size, 1>>)
    IN  Cat(Unsqueeze(yy, 2), Unsqueeze(xx, 2), 2)

make_coordinate_grid(spatial_size) ==
    LET x == Normalize(Arange(spatial_size), spatial_size)
        y == Normalize(Arange(spatial_size), spatial_size)
        yy == Repeat(ViewColumn(y), <<1, spatial_size>>)
        xx == Repeat(x, <<spatial_size, 1>>)
    IN  Cat(Unsqueeze(xx, 2), Unsqueeze(yy, 2), 2)

(***************************************************************************)
(* torch.exp on float32 (the keypoints of __main__ are float32).           *)
(*                                                                         *)
(* A result is <<cls, n, d>>: "nan"; "zero", exactly 0.0; "one", exactly   *)
(* 1.0; "inf"; and "exp", the float nearest exp(n/d), which is neither 0   *)
(* nor 1 nor infinite.                                                     *)
(***************************************************************************)
\* exp(-t) is exactly 0.0 for every t >= 104: exp(-104) < 2^-150, half the
\* smallest subnormal float32.
ExpUnderflow == 104

\* exp(t) is +inf for every t >= 89: exp(89) > 2^128.
ExpOverflow == 89

\* exp(-t) is exactly 1.0 for 0 <= t <= 2^-25, half the gap between 1.0 and
\* the float32 below it (and exp(t) for 0 <= t <= 2^-24, half the gap above).
HalfUlpInv == 33554432

HeatNaN == <<"nan", 0, 0>>
HeatZero == <<"zero", 0, 1>>
HeatOne == <<"one", 1, 1>>
HeatInf == <<"inf", 1, 0>>

ExpF(a) ==
    IF IsNaN(a) THEN HeatNaN
    ELSE IF a = NegInf THEN HeatZero
    ELSE IF a = PosInf THEN HeatInf
    ELSE IF a[1] <= 0 /\ -a[1] <= a[2] \div HalfUlpInv THEN HeatOne
    ELSE IF a[1] > 0 /\ a[1] <= a[2] \div (HalfUlpInv \div 2) THEN HeatOne
    ELSE IF (-a[1]) \div a[2] >= ExpUnderflow THEN HeatZero
    ELSE IF a[1] \div a[2] >= ExpOverflow THEN HeatInf
    ELSE <<"exp", a[1], a[2]>>

(***************************************************************************)
(* KP2Gaussian.forward(kp) of a module with the given spatial_size, sigma. *)
(***************************************************************************)
\* t * 2, elementwise.
Double(t) ==
    [shape |-> t.shape,
     data |-> [p \in 1..Len(t.data) |-> NumMul(t.data[p], Int2Num(2))]]

\* t ** 2, elementwise.
Square(t) ==
    [shape |-> t.shape,
     data |-> [p \in 1..Len(t.data) |-> NumMul(t.data[p], t.data[p])]]

\* The caller's tensor after kp = kp.view(*shape): view returns a new tensor
\* object over the same storage and the assignment rebinds the local name, so
\* the caller's tensor keeps its shape and its data.
CallerKpReshaped(kp, shape) == View(kp, shape)

CallerKpAfterView(kp, shape) == kp

\* 2 * sigma ** -2
TwoOverSigmaSquared(sigma) == NumDiv(Int2Num(2), NumMul(sigma, sigma))

\* 2 * sigma * abs(sigma)
TwoSigmaAbs(sigma) == NumMul(Int2Num(2), NumMul(sigma, <<Abs(sigma[1]), sigma[2]>>))

\* 2 * self.sigma ** 2
TwoSigmaSquared(sigma) == NumMul(Int2Num(2), NumMul(sigma, sigma))

\* The Gaussian without the minus sign.
GaussianNoNeg(sum, sigma) ==
    [shape |-> sum.shape,
     data |-> [p \in 1..Len(sum.data) |->
                  ExpF(NumDiv(sum.data[p], TwoSigmaSquared(sigma)))]]

\* out = torch.exp(-sum / (2 * self.sigma ** 2)), elementwise.
Gaussian(sum, sigma) ==
    [shape |-> sum.shape,
     data |-> [p \in 1..Len(sum.data) |->
                  ExpF(NumDiv(NumNeg(sum.data[p]), TwoSigmaSquared(sigma)))]]

NoTensor == [shape |-> <<>>, data |-> <<>>]

\* The result of the call: whether it raised, the returned tensor, and the
\* caller's keypoint tensor after the call.
forward(kp, spatial_size, sigma) ==
    LET grid0 == make_coordinate_grid(spatial_size)
        number_of_leading_dimensions == Rank(kp) - 1
        lead == SubSeq(kp.shape, 1, number_of_leading_dimensions)
        grid1 == View(grid0, Ones(number_of_leading_dimensions) \o grid0.shape)
        grid2 == Repeat(grid1, lead \o <<1, 1, 1>>)
        kshape == lead \o <<1, 1, 2>>
    IN  IF ~ViewOk(kp, kshape)
        THEN [raised |-> TRUE, out |-> NoTensor, kp |-> kp]
        ELSE LET kv == View(kp, kshape)
                 squares == Square(BroadcastSub(grid2, kv))
                 sum == SumLast(squares)
             IN  [raised |-> FALSE,
                  out |-> Gaussian(sum, sigma),
                  kp |-> CallerKpAfterView(kp, kshape)]

\* The shapes alone, as the calls above compute them: the grid's ...
GridShape(spatial_size) ==
    LET yy == RepeatShape(<<spatial_size, 1>>, <<1, spatial_size>>)
        xx == RepeatShape(<<spatial_size>>, <<spatial_size, 1>>)
    IN  CatShape(UnsqueezeShape(xx, 2), UnsqueezeShape(yy, 2), 2)

\* ... and that of the tensor forward returns for keypoints of shape kshape
\* with kshape[Len(kshape)] = 2.
ForwardShape(kshape, spatial_size) ==
    LET number_of_leading_dimensions == Len(kshape) - 1
        lead == SubSeq(kshape, 1, number_of_leading_dimensions)
        grid1 == Ones(number_of_leading_dimensions) \o GridShape(spatial_size)
        grid2 == RepeatShape(grid1, lead \o <<1, 1, 1>>)
    IN  SumLastShape(BroadcastShape(grid2, lead \o <<1, 1, 2>>))

(***************************************************************************)
(* The inputs.                                                             *)
(***************************************************************************)
\* spatial_size: 0 and 1 violate the documented precondition.
Sizes == 0..MaxS

\* sigma: 0.1 is the value of __main__; 0 and -1/2 violate the precondition.
Sigmas == { <<-1, 2>>, Zero, <<1, 10>>, <<1, 8>>, <<1, 2>>, <<4096, 1>> }

\* The dimensions before (N, T): none, one, and two as in __main__'s (2, 1).
LeadShapes == { <<>>, <<2>>, <<2, 1>> }

\* The size T of the trailing axis: 2, or 3 (malformed).
TrailDims == {2, 3}

\* The keypoints, in the order they fill the array: normalized coordinates in
\* [-1, 1], on and off the grid; a third coordinate of a malformed array is 0.
Points ==
    << <<Zero, Zero, Zero>>,
       <<Int2Num(-1), Int2Num(-1), Zero>>,
       <<Rat(1, 2), Zero, Zero>>,
       <<One, Rat(-1, 2), Zero>>,
       <<Rat(-1, 2), One, Zero>>,
       <<Zero, Rat(1, 2), Zero>> >>

\* The array of shape lead + (n, t) whose j-th keypoint is Points[j].
KpArray(lead, n, t) ==
    LET shape == lead \o <<n, t>>
    IN  [shape |-> shape,
         data |-> [p \in 1..Prod(shape) |-> Points[((p - 1) \div t) + 1][((p - 1) % t) + 1]]]

KpInputs ==
    { KpArray(lead, n, t) : lead \in LeadShapes, n \in 1..MaxN, t \in TrailDims }

(***************************************************************************)
(* The state: a KP2Gaussian module, the caller's keypoint tensor, and the  *)
(* result of the caller's last call of the module.                         *)
(***************************************************************************)
VARIABLES spatial_size, sigma, kp, out

vars == <<spatial_size, sigma, kp, out>>

\* Storage 0 holds the caller's keypoints; a returned tensor has a storage.
KpStorage == 0

NoResult == [status |-> "none", shape |-> <<>>, data |-> <<>>, storage |-> -1]

\* torch.exp allocates its result: a storage that no live tensor uses.
FreshStorage(live) == CHOOSE s \in 1..3 : s \notin live

Init ==
    /\ spatial_size \in Sizes
    /\ sigma \in Sigmas
    /\ kp \in KpInputs
    /\ out = NoResult

\* model = KP2Gaussian(spatial_size, sigma)
Construct(s, sg) ==
    /\ spatial_size' = s
    /\ sigma' = sg
    /\ out' = NoResult
    /\ UNCHANGED kp

\* The caller fills its keypoint array; the call on it is still to be made.
SetKp(k) ==
    /\ kp' = k
    /\ out' = NoResult
    /\ UNCHANGED <<spatial_size, sigma>>

\* out = model(kp)
Forward ==
    LET r == forward(kp, spatial_size, sigma)
    IN  /\ kp' = r.kp
        /\ out' = IF r.raised
                  THEN [status |-> "error", shape |-> <<>>, data |-> <<>>, storage |-> -1]
                  ELSE [status |-> "ok", shape |-> r.out.shape, data |-> r.out.data,
                        storage |-> FreshStorage({KpStorage, out.storage})]
        /\ UNCHANGED <<spatial_size, sigma>>

Next ==
    \/ \E s \in Sizes, sg \in Sigmas : Construct(s, sg)
    \/ \E k \in KpInputs : SetKp(k)
    \/ Forward

Spec == Init /\ [][Next]_vars

(***************************************************************************)
(* Notation for the properties.                                            *)
(***************************************************************************)
\* The call returned a tensor.
Called == out.status = "ok"

TrailingDim == kp.shape[Len(kp.shape)]

SigmaPositive == sigma[1] > 0

\* The call returned, on inputs that meet the documented preconditions.
ValidCall == Called /\ spatial_size >= 2 /\ SigmaPositive /\ TrailingDim = 2

\* c(i) = 2*i/(S-1) - 1, for S >= 2.
Coord(i, S) == Rat(2 * i - (S - 1), S - 1)

\* The positions of the tensor last returned, and the index [..., n, row, col]
\* of a position.
Cells == 1..Len(out.data)

OutIndex(p) == Unravel(p, out.shape)

Row(p) == OutIndex(p)[Len(out.shape) - 1]

Col(p) == OutIndex(p)[Len(out.shape)]

\* The index [..., n] of the keypoint whose slice holds position p, and the
\* number of that slice in row-major order.
KpIndex(p) == SubSeq(OutIndex(p), 1, Len(out.shape) - 2)

SliceOf(p) == (p - 1) \div (spatial_size * spatial_size)

KpX(p) == At(kp, KpIndex(p) \o <<0>>)

KpY(p) == At(kp, KpIndex(p) \o <<1>>)

\* (c(col) - kp[..., n, 0])^2 + (c(row) - kp[..., n, 1])^2 at position p.
SqDist(p) ==
    LET dx == NumSub(Coord(Col(p), spatial_size), KpX(p))
        dy == NumSub(Coord(Row(p), spatial_size), KpY(p))
    IN  NumAdd(NumMul(dx, dx), NumMul(dy, dy))

\* exp(-sq / (2 * sg^2)) as a float32, for a rational sg # 0.
RefHeat(sq, sg) == ExpF(NumDiv(NumNeg(sq), Rat(2 * sg[1] * sg[1], sg[2] * sg[2])))

\* The sign of n1/d1 - n2/d2 for d1, d2 > 0, by continued fractions (no
\* product is formed, so no intermediate value leaves the integer range).
RECURSIVE Cmp(_, _, _, _)
Cmp(n1, d1, n2, d2) ==
    LET q1 == n1 \div d1
        q2 == n2 \div d2
        r1 == n1 % d1
        r2 == n2 % d2
    IN  IF q1 # q2 THEN Sgn(q1 - q2)
        ELSE IF r1 = 0 \/ r2 = 0 THEN Sgn(r1 - r2)
        ELSE Cmp(d2, r2, d1, r1)

\* The order of the results of exp that are numbers: 0.0 is below every
\* "exp" result below 1.0, these are ordered by their exponents, 1.0 is above
\* them and below the "exp" results with a positive exponent, +inf is last.
HeatIsNumber(h) == h[1] # "nan"

HeatRank(h) ==
    IF h[1] = "zero" THEN 0
    ELSE IF h[1] = "exp" /\ h[2] < 0 THEN 1
    ELSE IF h[1] = "one" THEN 2
    ELSE IF h[1] = "exp" THEN 3
    ELSE 4

\* g is strictly above h as real numbers before the final rounding of exp.
HeatLt(h, g) ==
    /\ HeatIsNumber(h) /\ HeatIsNumber(g)
    /\ \/ HeatRank(h) < HeatRank(g)
       \/ /\ HeatRank(h) = HeatRank(g)
          /\ h[1] = "exp"
          /\ Cmp(h[2], h[3], g[2], g[3]) < 0

\* h <= g as floats: rounding is monotone, so this follows from the order of
\* the exponents.
HeatLe(h, g) == HeatIsNumber(h) /\ HeatIsNumber(g) /\ ~HeatLt(g, h)

\* The value lies in (0, 1), in (0, 1], in [0, 1].
HeatInOpenUnit(h) == h[1] = "exp" /\ h[2] < 0

HeatInHalfOpenUnit(h) == HeatInOpenUnit(h) \/ h = HeatOne

HeatInClosedUnit(h) == HeatInHalfOpenUnit(h) \/ h = HeatZero

(***************************************************************************)
(* The properties.                                                         *)
(***************************************************************************)
Min(a, b) == IF a < b THEN a ELSE b

\* C1: on valid inputs the tensor returned holds, at every index
\* [..., n, row, col], exp(-((c(col) - kp[..., n, 0])^2 + (c(row) -
\* kp[..., n, 1])^2) / (2 sigma^2)), whatever the leading shape; and the slice
\* of a keypoint is the same in every array that holds that keypoint at that
\* place, whatever the other keypoints and the leading shape of the array.
C1_ElementwiseReference ==
    ValidCall =>
        /\ \A p \in Cells : out.data[p] = RefHeat(SqDist(p), sigma)
        /\ \A k2 \in KpInputs :
              k2.shape[Len(k2.shape)] = 2 =>
                  LET o2 == forward(k2, spatial_size, sigma).out
                  IN  \A q \in 1..Min(Len(out.data), Len(o2.data)) :
                          out.data[q] = o2.data[q]

\* A call on a [2, 1, 2, 2] array of four distinct keypoints, whose last
\* keypoint (1, -1/2) gives exp(-1/2) at the cell of row 1, column 2.
C1_Witness ==
    /\ ValidCall
    /\ kp.shape = <<2, 1, 2, 2>>
    /\ spatial_size = 3
    /\ sigma = <<1, 2>>
    /\ At(out, <<1, 0, 1, 1, 2>>) = <<"exp", -1, 2>>

\* C2: for keypoints of shape [d1, ..., dk, N, 2] the call returns a tensor
\* of shape [d1, ..., dk, N, S, S], and [2, 1, 64, 2] with S = 64 gives
\* [2, 1, 64, 64, 64].
C2_OutputShape ==
    /\ (out.status # "none" /\ TrailingDim = 2) =>
          /\ Called
          /\ out.shape = SubSeq(kp.shape, 1, Len(kp.shape) - 1)
                            \o <<spatial_size, spatial_size>>
          /\ out.shape = ForwardShape(kp.shape, spatial_size)
          /\ Len(out.data) = Prod(out.shape)
    /\ ForwardShape(<<2, 1, 64, 2>>, 64) = <<2, 1, 64, 64, 64>>

\* A call on a [2, 1, 2, 2] array with S = 4 has returned [2, 1, 2, 4, 4].
C2_Witness ==
    /\ Called
    /\ kp.shape = <<2, 1, 2, 2>>
    /\ spatial_size = 4
    /\ out.shape = <<2, 1, 2, 4, 4>>

\* C3: for S >= 2 the grid has shape [S, S, 2] and its entry [row, col] is
\* (c(col), c(row)): channel 0 depends on the column only, channel 1 on the
\* row only, and the corners are (-1, -1) and (1, 1).
C3_GridEntries ==
    spatial_size >= 2 =>
        LET S == spatial_size
            g == make_coordinate_grid(S)
        IN  /\ g.shape = <<S, S, 2>>
            /\ \A row \in 0..(S - 1), col \in 0..(S - 1) :
                  /\ At(g, <<row, col, 0>>) = Coord(col, S)
                  /\ At(g, <<row, col, 1>>) = Coord(row, S)
                  /\ \A other \in 0..(S - 1) :
                        /\ At(g, <<other, col, 0>>) = At(g, <<row, col, 0>>)
                        /\ At(g, <<row, other, 1>>) = At(g, <<row, col, 1>>)
            /\ At(g, <<0, 0, 0>>) = Int2Num(-1)
            /\ At(g, <<0, 0, 1>>) = Int2Num(-1)
            /\ At(g, <<S - 1, S - 1, 0>>) = One
            /\ At(g, <<S - 1, S - 1, 1>>) = One

\* A call has built the grid of S = 4, whose entry [2, 1] is (-1/3, 1/3).
C3_Witness ==
    /\ Called
    /\ spatial_size = 4
    /\ At(make_coordinate_grid(spatial_size), <<2, 1, 0>>) = Rat(-1, 3)
    /\ At(make_coordinate_grid(spatial_size), <<2, 1, 1>>) = Rat(1, 3)

\* C4: a call with spatial_size < 2, sigma <= 0 or a trailing dimension other
\* than 2 raises and returns nothing.
C4_PreconditionFatal ==
    (out.status # "none" /\ (spatial_size < 2 \/ sigma[1] <= 0 \/ TrailingDim # 2))
        => out.status = "error"

\* sq / (2 sigma^2) at position p, for sigma # 0.
Exponent(p) == NumDiv(SqDist(p), Rat(2 * sigma[1] * sigma[1], sigma[2] * sigma[2]))

Center(p) ==
    LET S == spatial_size
        m == (S - 1) \div 2
    IN  SliceOf(p) * S * S + m * S + m + 1

KpAtOrigin(p) == KpX(p) = Zero /\ KpY(p) = Zero

C10_SigmaSignIrrelevant ==
    (out.status # "none" /\ sigma[1] # 0) =>
        LET r == forward(kp, spatial_size, NumNeg(sigma))
        IN  /\ r.raised = (out.status = "error")
            /\ r.out.shape = out.shape
            /\ r.out.data = out.data
            /\ (Called /\ sigma[1] < 0 /\ spatial_size >= 2) =>
                  \A p \in Cells : HeatInClosedUnit(out.data[p])

\* A call with sigma = -1/2 has returned a heatmap with a value in (0, 1).
C10_Witness ==
    /\ Called
    /\ sigma = <<-1, 2>>
    /\ spatial_size >= 2
    /\ \E p \in Cells : HeatInOpenUnit(out.data[p])

=============================================================================
